---- MODULE Spec2Model ----
(***************************************************************************)
(* Videoflix transcoding pipeline: the Video row, the django_rq jobs of    *)
(* app_video/tasks.py and the signal handlers of app_video/signals.py.     *)
(*                                                                         *)
(* One Video entity is followed from the request that creates it to the    *)
(* end of its pipeline.  Every job body runs inside transaction.atomic:    *)
(* the row lock taken by select_for_update() is held until the atomic      *)
(* block exits, writes made by save() become visible to other              *)
(* transactions only when the block exits without an exception, and an     *)
(* exception leaving the block rolls every write of the block back.        *)
(* The database gives select_for_update() a row lock (PostgreSQL); plain   *)
(* reads do not wait for it.                                               *)
(* The queue is django_rq: a job enqueued with depends_on stays deferred   *)
(* until the job it depends on has finished successfully; a job whose      *)
(* body raises is moved to the failed registry and its dependents stay     *)
(* deferred.                                                               *)
(***************************************************************************)
EXTENDS Integers, Sequences, FiniteSets, TLC

(* ---- bounds ---------------------------------------------------------- *)

\* number of worker processes pulling jobs from the default queue
NumWorkers == 2

\* how many times in total an ended job is delivered again
MaxReruns == 1

\* how many times the metadata of the entity is edited in the admin
MaxEdits == 1

(* ---- constants of the program ---------------------------------------- *)

\* the primary key the database assigns to the entity that is followed
VideoId == 1

\* settings.MEDIA_ROOT is the root of every path below and is left out
VIDEO_RESOLUTIONS ==
    << <<"480p", "854:480", "800k", "96k">>,
       <<"720p", "1280:720", "2800k", "128k">>,
       <<"1080p", "1920:1080", "5000k", "192k">> >>

\* the ladder listed from the highest quality down
resolutions_info_descending ==
    << <<"1080p", "1920x1080", "5000000">>,
       <<"720p", "1280x720", "2800000">>,
       <<"480p", "854x480", "800000">> >>

resolutions_info ==
    << <<"480p", "854x480", "800000">>,
       <<"720p", "1280x720", "2800000">>,
       <<"1080p", "1920x1080", "5000000">> >>

Labels == {VIDEO_RESOLUTIONS[i][1] : i \in 1..Len(VIDEO_RESOLUTIONS)}

ThumbJob == "create_thumbnail"
MasterJob == "create_master_playlist"
Jobs == Labels \cup {ThumbJob, MasterJob}

\* the value of an empty CharField (NULL or '')
Null == ""

\* a path relative to settings.MEDIA_ROOT is the sequence of its components;
\* the empty path is the value of an empty file field or path field
NullPath == <<>>

Statuses == {"pending", "processing", "completed", "failed"}

(* ---- the Video row ---------------------------------------------------- *)

\* upload_to of both file fields
video_directory_path(id, filename) ==
    IF id = 0 THEN <<"videos", "temp">> \o filename
    ELSE <<"videos", ToString(id)>> \o filename

\* no row / an instance that was not loaded
NoVideo ==
    [id |-> 0, title |-> Null, original_video |-> NullPath, thumbnail |-> NullPath,
     is_processed |-> FALSE, processing_status |-> Null,
     hls_path |-> [l \in Labels |-> NullPath]]

\* a freshly inserted row: the field defaults of the model; the uploaded
\* files are stored while the instance has no id yet
NewVideo(withSource, withThumb) ==
    [id |-> VideoId,
     title |-> "title",
     original_video |->
        IF withSource THEN video_directory_path(0, <<"original.mp4">>) ELSE NullPath,
     thumbnail |->
        IF withThumb THEN video_directory_path(0, <<"thumbnail.jpg">>) ELSE NullPath,
     is_processed |-> FALSE,
     processing_status |-> "pending",
     hls_path |-> [l \in Labels |-> NullPath]]

(* ---- paths ------------------------------------------------------------ *)

output_dir(id) == <<"videos", "hls", ToString(id)>>
resolution_dir(id, resolution) == output_dir(id) \o <<resolution>>
index_m3u8(id, resolution) == resolution_dir(id, resolution) \o <<"index.m3u8">>
segment_ts(id, resolution) == resolution_dir(id, resolution) \o <<"segment_000.ts">>
master_playlist_path(id) == output_dir(id) \o <<"master.m3u8">>
\* the value stored in hls_<resolution>_path
rendition_path(id, l) == <<"videos", "hls", ToString(id), l, "index.m3u8">>
thumbnail_dir(id) == <<"videos", "thumbnails", ToString(id)>>
thumbnail_path(id) == thumbnail_dir(id) \o <<"thumbnail.jpg">>

(* ---- state ------------------------------------------------------------ *)

VARIABLES
    request,          \* the creating request: "none", "in_tx", "committed", "rolled_back"
    instance,         \* the instance saved by the creating request
    on_commit,        \* is enqueue_video_processing registered with the transaction
    video,            \* the committed row (NoVideo: no such row)
    pc,               \* position of every job
    lock,             \* the jobs whose transaction holds the row lock
    local,            \* the instance `video` of every running job body
    tx,               \* the row as last saved inside the job's open transaction
    fs,               \* the paths that exist under MEDIA_ROOT
    playlist_content, \* the lines of master.m3u8
    runs,             \* the outcomes of the ended executions of every job, in order
    reruns,           \* deliveries of an already ended job so far
    enqueued,         \* how often every pipeline job was handed to the queue
    edit,             \* the admin request that edits the metadata of the entity
    del,              \* the request that deletes the entity
    cleanup           \* the cleanup_deleted_video_files job

\* the accounts, the mail and the last answer of the authentication views
VARIABLES
    users,            \* the rows of the User table; the key of a row is its index
    outbox,           \* the emails sent so far
    response          \* the request last handled by a view, and its answer

pipeline_vars == <<request, instance, on_commit, video, pc, lock, local, tx, fs,
                   playlist_content, runs, reruns, enqueued, edit, del, cleanup>>

auth_vars == <<users, outbox, response>>

vars == <<request, instance, on_commit, video, pc, lock, local, tx, fs,
          playlist_content, runs, reruns, enqueued, edit, del, cleanup,
          users, outbox, response>>

\* None, and any token that no user was given
NoToken == [pk |-> 0, password |-> Null, email |-> Null]

\* no request was handled yet
NoResponse ==
    [view |-> "none", uidb64 |-> Null, token |-> NoToken, email |-> Null,
     password |-> Null, status |-> 0, detail |-> <<>>, user |-> 0,
     data_token |-> NoToken, cookies |-> {}]

\* the transaction of the deleting request as a holder of the row lock
Deleter == "delete"

NoEdit == [phase |-> "none", obj |-> NoVideo, count |-> 0]
NoDelete == [phase |-> "none", obj |-> NoVideo, outer_atomic |-> FALSE,
             at_rest |-> FALSE]
NoCleanup == [pc |-> "none", video_id |-> 0, file_paths |-> <<>>, i |-> 0,
              runs |-> <<>>, enqueued |-> 0, error |-> ""]

Running == {j \in Jobs : pc[j] \in {"begin", "ffmpeg", "save", "write", "except"}}

Init ==
    /\ request = "none"
    /\ instance = NoVideo
    /\ on_commit = FALSE
    /\ video = NoVideo
    /\ pc = [j \in Jobs |-> "none"]
    /\ lock = {}
    /\ local = [j \in Jobs |-> NoVideo]
    /\ tx = [j \in Jobs |-> NoVideo]
    /\ fs = {}
    /\ playlist_content = <<>>
    /\ runs = [j \in Jobs |-> <<>>]
    /\ reruns = 0
    /\ enqueued = [j \in Jobs |-> 0]
    /\ edit = NoEdit
    /\ del = NoDelete
    /\ cleanup = NoCleanup
    /\ users = <<>>
    /\ outbox = <<>>
    /\ response = NoResponse

(* ---- the queue -------------------------------------------------------- *)

NoJob == Null

LabelAt(i) == VIDEO_RESOLUTIONS[i][1]

\* the composer enqueued without depends_on
depends_on_omitted(j) ==
    IF j \in {MasterJob, ThumbJob, LabelAt(1)} THEN NoJob
    ELSE LabelAt((CHOOSE i \in 2..Len(VIDEO_RESOLUTIONS) : LabelAt(i) = j) - 1)

\* the composer made to depend on the first encoder job instead of the last
depends_on_first(j) ==
    IF j = MasterJob THEN LabelAt(1)
    ELSE IF j = ThumbJob THEN NoJob
    ELSE IF j = LabelAt(1) THEN NoJob
    ELSE LabelAt((CHOOSE i \in 2..Len(VIDEO_RESOLUTIONS) : LabelAt(i) = j) - 1)

\* depends_on of every enqueue call: previous_job of the loop, and after the
\* loop the last encoder job for the composer; the thumbnail job has none
depends_on(j) ==
    IF j = MasterJob THEN LabelAt(Len(VIDEO_RESOLUTIONS))
    ELSE IF j = ThumbJob THEN NoJob
    ELSE IF j = LabelAt(1) THEN NoJob
    ELSE LabelAt((CHOOSE i \in 2..Len(VIDEO_RESOLUTIONS) : LabelAt(i) = j) - 1)

\* the on_commit callback: where enqueue leaves every job
enqueue_video_processing(inst) ==
    [j \in Jobs |->
        IF j = ThumbJob
        THEN (IF inst.thumbnail = NullPath THEN "queued" ELSE "none")
        ELSE IF depends_on(j) = NoJob THEN "queued" ELSE "deferred"]

\* the handler registering the callback on every save of an entity with a file
registers_on_every_save(inst, created) == inst.original_video # NullPath

\* line 29: does post_save register enqueue_video_processing
registers_pipeline(inst, created) == created /\ inst.original_video # NullPath

\* lines 33-46: the enqueue calls of one run of the callback, counted
submitted(inst) ==
    [j \in Jobs |->
        enqueued[j] + (IF j = ThumbJob /\ inst.thumbnail # NullPath THEN 0 ELSE 1)]

\* the enqueue counts after the transaction that saved `inst` n times as an
\* existing row has committed and run its on_commit callbacks
on_save(inst, n) ==
    IF registers_pipeline(inst, FALSE)
    THEN [j \in Jobs |-> enqueued[j] + n * (submitted(inst)[j] - enqueued[j])]
    ELSE enqueued

(* ---- creation of the entity -------------------------------------------- *)

\* the handler calling enqueue_video_processing itself instead of handing it
\* to transaction.on_commit
video_post_save_handler_enqueues_at_once(withSource, withThumb) ==
    /\ request = "none"
    /\ request' = "in_tx"
    /\ instance' = NewVideo(withSource, withThumb)
    /\ on_commit' = FALSE
    /\ pc' = IF registers_pipeline(instance', TRUE)
             THEN enqueue_video_processing(instance') ELSE pc
    /\ enqueued' = IF registers_pipeline(instance', TRUE)
                   THEN submitted(instance') ELSE enqueued
    /\ fs' = fs \cup ({instance'.original_video, instance'.thumbnail} \ {NullPath})
    /\ UNCHANGED <<video, lock, local, tx, playlist_content, runs, reruns,
                   edit, del, cleanup>>
    /\ UNCHANGED auth_vars

\* post_save of the INSERT, inside the creating transaction
video_post_save_handler(withSource, withThumb) ==
    /\ request = "none"
    /\ request' = "in_tx"
    /\ instance' = NewVideo(withSource, withThumb)
    /\ on_commit' = registers_pipeline(instance', TRUE)
    /\ fs' = fs \cup ({instance'.original_video, instance'.thumbnail} \ {NullPath})
    /\ UNCHANGED <<video, pc, lock, local, tx, playlist_content, runs, reruns,
                   enqueued, edit, del, cleanup>>
    /\ UNCHANGED auth_vars

\* the creating transaction commits and runs its on_commit callbacks
transaction_commit ==
    /\ request = "in_tx"
    /\ request' = "committed"
    /\ video' = instance
    /\ pc' = IF on_commit THEN enqueue_video_processing(instance) ELSE pc
    /\ enqueued' = IF on_commit THEN submitted(instance) ELSE enqueued
    /\ on_commit' = FALSE
    /\ UNCHANGED <<instance, lock, local, tx, fs, playlist_content, runs, reruns,
                   edit, del, cleanup>>
    /\ UNCHANGED auth_vars

\* the creating transaction rolls back: its callbacks are dropped
transaction_rollback ==
    /\ request = "in_tx"
    /\ request' = "rolled_back"
    /\ on_commit' = FALSE
    /\ UNCHANGED <<instance, video, pc, lock, local, tx, fs, playlist_content,
                   runs, reruns, enqueued, edit, del, cleanup>>
    /\ UNCHANGED auth_vars

(* ---- workers and transactions ------------------------------------------ *)

\* the workers that are executing a job
Busy == Cardinality(Running) + (IF cleanup.pc \in {"remove", "except"} THEN 1 ELSE 0)

\* a free worker takes a queued job and enters its atomic block
Work(j) ==
    /\ pc[j] = "queued"
    /\ Busy < NumWorkers
    /\ pc' = [pc EXCEPT ![j] = "begin"]
    /\ UNCHANGED <<enqueued, edit, del, cleanup>>
    /\ UNCHANGED <<request, instance, on_commit, video, lock, local, tx, fs,
                   playlist_content, runs, reruns>>
    /\ UNCHANGED auth_vars

\* an ended job is delivered again (requeue of a failed job, redelivery)
Rerun(j) ==
    /\ pc[j] \in {"done", "failed"}
    /\ reruns < MaxReruns
    /\ reruns' = reruns + 1
    /\ pc' = [pc EXCEPT ![j] = "queued"]
    /\ UNCHANGED <<enqueued, edit, del, cleanup>>
    /\ UNCHANGED <<request, instance, on_commit, video, lock, local, tx, fs,
                   playlist_content, runs>>
    /\ UNCHANGED auth_vars

\* a plain get(): the row is read without waiting for the lock
select_without_lock(j) == TRUE

\* select_for_update(): the row lock is granted when no other transaction
\* holds it, otherwise the statement waits
select_for_update(j) == lock \subseteq {j}

\* Video.objects.get(id=video_id) inside the job's transaction: its own
\* uncommitted write if it made one, else the committed row
get(j) == IF tx[j].id # 0 THEN tx[j] ELSE video

\* the job body without transaction.atomic: every save is final
atomic_autocommit(written, raised) ==
    IF written.id = 0 THEN video ELSE written

\* transaction.atomic around the job body: the committed row after the
\* block exits; `written` is the row as last saved in the block
atomic(written, raised) ==
    IF raised \/ written.id = 0 THEN video ELSE written

\* the job leaves the worker: its transaction is over and the lock released;
\* after a successful job the worker enqueues the jobs deferred on it
EndJob(j, outcome) ==
    /\ pc' = [k \in Jobs |->
                IF k = j THEN outcome
                ELSE IF outcome = "done" /\ pc[k] = "deferred" /\ depends_on(k) = j
                     THEN "queued"
                     ELSE pc[k]]
    /\ lock' = lock \ {j}
    /\ tx' = [tx EXCEPT ![j] = NoVideo]
    /\ local' = [local EXCEPT ![j] = NoVideo]
    /\ runs' = [runs EXCEPT ![j] = Append(@, outcome)]
    /\ UNCHANGED auth_vars

(* ---- convert_video_to_hls ---------------------------------------------- *)

\* the encoder setting 'processing' whatever status it finds
hls_select_any_status(l) ==
    /\ pc[l] = "begin"
    /\ select_for_update(l)
    /\ IF video.id = 0
       THEN /\ pc' = [pc EXCEPT ![l] = "except"]
            /\ UNCHANGED <<lock, local, tx, fs>>
       ELSE LET v == [video EXCEPT !.processing_status = "processing"]
            IN /\ lock' = lock \cup {l}
               /\ local' = [local EXCEPT ![l] = v]
               /\ tx' = [tx EXCEPT ![l] = v]
               /\ fs' = fs \cup {output_dir(v.id), resolution_dir(v.id, l)}
               /\ pc' = [pc EXCEPT ![l] = "ffmpeg"]
    /\ UNCHANGED <<enqueued, edit, del, cleanup>>
    /\ UNCHANGED <<request, instance, on_commit, video, playlist_content,
                   runs, reruns>>
    /\ UNCHANGED auth_vars

\* lines 27-35: lock and read the row, pending -> processing, makedirs
hls_select(l) ==
    /\ pc[l] = "begin"
    /\ select_for_update(l)
    /\ IF video.id = 0
       THEN /\ pc' = [pc EXCEPT ![l] = "except"]
            /\ UNCHANGED <<lock, local, tx, fs>>
       ELSE LET pending == video.processing_status = "pending"
                v == IF pending
                     THEN [video EXCEPT !.processing_status = "processing"]
                     ELSE video
            IN /\ lock' = lock \cup {l}
               /\ local' = [local EXCEPT ![l] = v]
               /\ tx' = [tx EXCEPT ![l] = IF pending THEN v ELSE @]
               /\ fs' = fs \cup {output_dir(v.id), resolution_dir(v.id, l)}
               /\ pc' = [pc EXCEPT ![l] = "ffmpeg"]
    /\ UNCHANGED <<enqueued, edit, del, cleanup>>
    /\ UNCHANGED <<request, instance, on_commit, video, playlist_content,
                   runs, reruns>>
    /\ UNCHANGED auth_vars

\* subprocess.run without check=True: the job goes on after a failed transcoder
hls_ffmpeg_unchecked(l) ==
    /\ pc[l] = "ffmpeg"
    /\ \E exit \in {"0", "1", "1 with partial output"} :
          /\ fs' = fs \cup
                (CASE exit = "0" -> {index_m3u8(local[l].id, l), segment_ts(local[l].id, l)}
                   [] exit = "1" -> {}
                   [] OTHER -> {segment_ts(local[l].id, l)})
          /\ pc' = [pc EXCEPT ![l] = "save"]
    /\ UNCHANGED <<enqueued, edit, del, cleanup>>
    /\ UNCHANGED <<request, instance, on_commit, video, lock, local, tx,
                   playlist_content, runs, reruns>>
    /\ UNCHANGED auth_vars

\* lines 37-51: the transcoder subprocess ends with exit status 0 or not;
\* a failed run may leave partial output behind
hls_ffmpeg(l) ==
    /\ pc[l] = "ffmpeg"
    /\ \E exit \in {"0", "1", "1 with partial output"} :
          /\ fs' = fs \cup
                (CASE exit = "0" -> {index_m3u8(local[l].id, l), segment_ts(local[l].id, l)}
                   [] exit = "1" -> {}
                   [] OTHER -> {segment_ts(local[l].id, l)})
          /\ pc' = [pc EXCEPT ![l] = IF exit = "0" THEN "save" ELSE "except"]
    /\ UNCHANGED <<enqueued, edit, del, cleanup>>
    /\ UNCHANGED <<request, instance, on_commit, video, lock, local, tx,
                   playlist_content, runs, reruns>>
    /\ UNCHANGED auth_vars

\* the encoder writing to a playlist name of its own in every run
hls_save_unique_name(l) ==
    /\ pc[l] = "save"
    /\ LET v == [local[l] EXCEPT
                    !.hls_path[l] = <<"videos", "hls", ToString(local[l].id), l,
                                      "index" \o ToString(Len(runs[l])) \o ".m3u8">>]
       IN /\ video' = atomic(v, FALSE)
          /\ enqueued' = on_save(v, IF tx[l].id # 0 THEN 2 ELSE 1)
    /\ EndJob(l, "done")
    /\ UNCHANGED <<request, instance, on_commit, fs, playlist_content, reruns,
                   edit, del, cleanup>>
    /\ UNCHANGED auth_vars

\* lines 53-56: record the rendition path, save, leave the atomic block
hls_save(l) ==
    /\ pc[l] = "save"
    /\ LET v == [local[l] EXCEPT
                    !.hls_path[l] = <<"videos", "hls", ToString(local[l].id), l,
                                      "index.m3u8">>]
       IN /\ video' = atomic(v, FALSE)
          /\ enqueued' = on_save(v, IF tx[l].id # 0 THEN 2 ELSE 1)
    /\ EndJob(l, "done")
    /\ UNCHANGED <<request, instance, on_commit, fs, playlist_content, reruns,
                   edit, del, cleanup>>
    /\ UNCHANGED auth_vars

\* lines 58-63: re-read the row, mark it failed, save, raise again
hls_except(l) ==
    /\ pc[l] = "except"
    /\ LET v == [get(l) EXCEPT !.processing_status = "failed"]
       IN video' = atomic(IF get(l).id = 0 THEN NoVideo ELSE v, TRUE)
    /\ EndJob(l, "failed")
    /\ UNCHANGED <<enqueued, edit, del, cleanup>>
    /\ UNCHANGED <<request, instance, on_commit, fs, playlist_content, reruns>>
    /\ UNCHANGED auth_vars

convert_video_to_hls(l) ==
    \/ hls_select(l)
    \/ hls_ffmpeg(l)
    \/ hls_save(l)
    \/ hls_except(l)

(* ---- create_thumbnail --------------------------------------------------- *)

\* the check for an existing thumbnail left out
thumbnail_check_omitted(v) == FALSE

\* line 83: the instance has a thumbnail
has_thumbnail(v) == v.thumbnail # NullPath

\* lines 81-90: lock and read the row; return at once when a thumbnail is
\* set, otherwise makedirs
thumbnail_select ==
    /\ pc[ThumbJob] = "begin"
    /\ select_for_update(ThumbJob)
    /\ IF video.id = 0
       THEN /\ pc' = [pc EXCEPT ![ThumbJob] = "except"]
            /\ UNCHANGED <<video, lock, local, tx, fs, runs>>
       ELSE IF has_thumbnail(video)
       THEN /\ video' = atomic(NoVideo, FALSE)
            /\ EndJob(ThumbJob, "done")
            /\ UNCHANGED fs
       ELSE /\ lock' = lock \cup {ThumbJob}
            /\ local' = [local EXCEPT ![ThumbJob] = video]
            /\ fs' = fs \cup {thumbnail_dir(video.id)}
            /\ pc' = [pc EXCEPT ![ThumbJob] = "ffmpeg"]
            /\ UNCHANGED <<video, tx, runs>>
    /\ UNCHANGED <<enqueued, edit, del, cleanup>>
    /\ UNCHANGED <<request, instance, on_commit, playlist_content, reruns>>
    /\ UNCHANGED auth_vars

\* lines 92-101: the frame extraction ends with exit status 0 or not
thumbnail_ffmpeg ==
    /\ pc[ThumbJob] = "ffmpeg"
    /\ \E exit \in {"0", "1"} :
          /\ fs' = IF exit = "0" THEN fs \cup {thumbnail_path(local[ThumbJob].id)} ELSE fs
          /\ pc' = [pc EXCEPT ![ThumbJob] = IF exit = "0" THEN "save" ELSE "except"]
    /\ UNCHANGED <<enqueued, edit, del, cleanup>>
    /\ UNCHANGED <<request, instance, on_commit, video, lock, local, tx,
                   playlist_content, runs, reruns>>
    /\ UNCHANGED auth_vars

\* lines 103-106: store the image in the file field and save the instance
thumbnail_save ==
    /\ pc[ThumbJob] = "save"
    /\ LET id == local[ThumbJob].id
           name == video_directory_path(id, <<ToString(id), "thumbnail.jpg">>)
           v == [local[ThumbJob] EXCEPT !.thumbnail = name]
       IN /\ fs' = fs \cup {name}
          /\ video' = atomic(v, FALSE)
          /\ enqueued' = on_save(v, 1)
    /\ EndJob(ThumbJob, "done")
    /\ UNCHANGED <<request, instance, on_commit, playlist_content, reruns,
                   edit, del, cleanup>>
    /\ UNCHANGED auth_vars

\* the handler of the other two jobs, with a write that lasts
thumbnail_except_marks_failed ==
    /\ pc[ThumbJob] = "except"
    /\ video' = IF video.id = 0 THEN video
                ELSE [video EXCEPT !.processing_status = "failed"]
    /\ EndJob(ThumbJob, "failed")
    /\ UNCHANGED <<enqueued, edit, del, cleanup>>
    /\ UNCHANGED <<request, instance, on_commit, fs, playlist_content, reruns>>
    /\ UNCHANGED auth_vars

\* lines 108-110: raise again
thumbnail_except ==
    /\ pc[ThumbJob] = "except"
    /\ video' = atomic(tx[ThumbJob], TRUE)
    /\ EndJob(ThumbJob, "failed")
    /\ UNCHANGED <<enqueued, edit, del, cleanup>>
    /\ UNCHANGED <<request, instance, on_commit, fs, playlist_content, reruns>>
    /\ UNCHANGED auth_vars

create_thumbnail ==
    \/ thumbnail_select
    \/ thumbnail_ffmpeg
    \/ thumbnail_save
    \/ thumbnail_except

(* ---- create_master_playlist --------------------------------------------- *)

\* lines 141-145: the entries of resolutions_info from the i-th on whose
\* rendition path is set on the instance
RECURSIVE stream_entries(_, _)
stream_entries(v, i) ==
    IF i > Len(resolutions_info) THEN <<>>
    ELSE LET resolution == resolutions_info[i][1]
             resolution_str == resolutions_info[i][2]
             bandwidth == resolutions_info[i][3]
         IN (IF v.hls_path[resolution] # NullPath
             THEN << "#EXT-X-STREAM-INF:BANDWIDTH=" \o bandwidth
                        \o ",RESOLUTION=" \o resolution_str,
                     resolution \o "/index.m3u8",
                     "" >>
             ELSE <<>>)
            \o stream_entries(v, i + 1)

\* lines 133-145: the lines of the manifest
master_playlist(v) == <<"#EXTM3U", "#EXT-X-VERSION:3", "">> \o stream_entries(v, 1)

\* the status set without the flag
finalize_status_only(v) == [v EXCEPT !.processing_status = "completed"]

\* lines 150-151: the final state of the row
finalize(v) == [v EXCEPT !.processing_status = "completed", !.is_processed = TRUE]

\* the composer reading the row with get_or_create
master_select_get_or_create ==
    /\ pc[MasterJob] = "begin"
    /\ select_for_update(MasterJob)
    /\ lock' = lock \cup {MasterJob}
    /\ local' = [local EXCEPT ![MasterJob] =
                    IF video.id = 0 THEN [NoVideo EXCEPT !.id = VideoId] ELSE video]
    /\ pc' = [pc EXCEPT ![MasterJob] = "write"]
    /\ UNCHANGED <<enqueued, edit, del, cleanup>>
    /\ UNCHANGED <<request, instance, on_commit, video, tx, fs,
                   playlist_content, runs, reruns>>
    /\ UNCHANGED auth_vars

\* lines 128-131: lock and read the row
master_select ==
    /\ pc[MasterJob] = "begin"
    /\ select_for_update(MasterJob)
    /\ IF video.id = 0
       THEN /\ pc' = [pc EXCEPT ![MasterJob] = "except"]
            /\ UNCHANGED <<lock, local>>
       ELSE /\ lock' = lock \cup {MasterJob}
            /\ local' = [local EXCEPT ![MasterJob] = video]
            /\ pc' = [pc EXCEPT ![MasterJob] = "write"]
    /\ UNCHANGED <<enqueued, edit, del, cleanup>>
    /\ UNCHANGED <<request, instance, on_commit, video, tx, fs,
                   playlist_content, runs, reruns>>
    /\ UNCHANGED auth_vars

\* lines 147-154: write the manifest, finalize the row, leave the atomic
\* block; open() fails when the directory is missing, and either call can
\* fail with an I/O error, after open() with the file truncated
master_write ==
    /\ pc[MasterJob] = "write"
    /\ LET id == local[MasterJob].id
       IN \E io \in {"ok", "open fails", "write fails"} :
             IF io = "ok" /\ output_dir(id) \in fs
             THEN /\ fs' = fs \cup {master_playlist_path(id)}
                  /\ playlist_content' = master_playlist(local[MasterJob])
                  /\ video' = atomic(finalize(local[MasterJob]), FALSE)
                  /\ enqueued' = on_save(finalize(local[MasterJob]), 1)
                  /\ EndJob(MasterJob, "done")
             ELSE /\ IF io = "write fails" /\ output_dir(id) \in fs
                     THEN /\ fs' = fs \cup {master_playlist_path(id)}
                          /\ playlist_content' = <<>>
                     ELSE UNCHANGED <<fs, playlist_content>>
                  /\ pc' = [pc EXCEPT ![MasterJob] = "except"]
                  /\ UNCHANGED <<video, lock, local, tx, runs, enqueued>>
    /\ UNCHANGED <<request, instance, on_commit, reruns, edit, del, cleanup>>
    /\ UNCHANGED auth_vars

\* lines 156-161: re-read the row, mark it failed, save, raise again
master_except ==
    /\ pc[MasterJob] = "except"
    /\ LET v == [get(MasterJob) EXCEPT !.processing_status = "failed"]
       IN video' = atomic(IF get(MasterJob).id = 0 THEN NoVideo ELSE v, TRUE)
    /\ EndJob(MasterJob, "failed")
    /\ UNCHANGED <<enqueued, edit, del, cleanup>>
    /\ UNCHANGED <<request, instance, on_commit, fs, playlist_content, reruns>>
    /\ UNCHANGED auth_vars

create_master_playlist ==
    \/ master_select
    \/ master_write
    \/ master_except

(* ---- the specification -------------------------------------------------- *)

Next ==
    \/ \E withSource \in BOOLEAN, withThumb \in BOOLEAN :
          video_post_save_handler(withSource, withThumb)
    \/ transaction_commit
    \/ transaction_rollback
    \/ \E j \in Jobs : Work(j)
    \/ \E j \in Jobs : Rerun(j)
    \/ \E l \in Labels : convert_video_to_hls(l)
    \/ create_thumbnail
    \/ create_master_playlist

Spec == Init /\ [][Next]_vars

\* scheduling: a worker that is free takes a queued job, a job that can take
\* its next step takes it, the transcoder subprocess ends; a new delivery of
\* an ended job is never promised
Fairness ==
    /\ \A j \in Jobs : WF_vars(Work(j))
    /\ \A l \in Labels : WF_vars(convert_video_to_hls(l))
    /\ WF_vars(create_thumbnail)
    /\ WF_vars(create_master_playlist)

SpecFair == Init /\ [][Next]_vars /\ Fairness

(* ---- metadata edits in the admin ----------------------------------------- *)

\* the change view loads the object; the processing fields are read-only in
\* the form but part of the loaded object
admin_load ==
    /\ edit.phase \in {"none", "saved"}
    /\ edit.count < MaxEdits
    /\ video.id # 0
    /\ edit' = [phase |-> "loaded", obj |-> video, count |-> edit.count + 1]
    /\ UNCHANGED <<request, instance, on_commit, video, pc, lock, local, tx, fs,
                   playlist_content, runs, reruns, enqueued, del, cleanup>>
    /\ UNCHANGED auth_vars

\* the form sets the title and the object is saved with all its fields; the
\* UPDATE waits for the row lock; post_save is sent with created = False
admin_save ==
    /\ edit.phase = "loaded"
    /\ video.id # 0
    /\ lock = {}
    /\ LET obj == [edit.obj EXCEPT !.title = "new title"]
       IN /\ video' = obj
          /\ enqueued' = on_save(obj, 1)
          /\ edit' = [edit EXCEPT !.phase = "saved", !.obj = obj]
    /\ UNCHANGED <<request, instance, on_commit, pc, lock, local, tx, fs,
                   playlist_content, runs, reruns, del, cleanup>>
    /\ UNCHANGED auth_vars

NextEdit ==
    \/ Next
    \/ admin_load
    \/ admin_save

SpecEdit == Init /\ [][NextEdit]_vars

(* ---- deletion of the entity ----------------------------------------------- *)

\* no pipeline job is queued or executing
AtRest == \A j \in Jobs : pc[j] \in {"none", "deferred", "done", "failed"}

\* the deleting request loads the object (no lock is taken).  The admin's
\* delete view runs inside a transaction of its own (outer_atomic); the
\* admin's "delete selected" action and a plain delete() do not
delete_load ==
    /\ del.phase = "none"
    /\ video.id # 0
    /\ \E outer_atomic \in BOOLEAN :
         del' = [phase |-> "loaded", obj |-> video, outer_atomic |-> outer_atomic,
                 at_rest |-> FALSE]
    /\ UNCHANGED <<request, instance, on_commit, video, pc, lock, local, tx, fs,
                   playlist_content, runs, reruns, enqueued, edit, cleanup>>
    /\ UNCHANGED auth_vars

\* the handler calling enqueue_video_cleanup itself instead of handing it to
\* transaction.on_commit
video_post_delete_handler_enqueues_at_once ==
    /\ del.phase = "loaded"
    /\ lock = {}
    /\ lock' = {Deleter}
    /\ del' = [del EXCEPT !.phase = "in_tx", !.at_rest = AtRest /\ del.obj = video]
    /\ cleanup' = [cleanup EXCEPT !.pc = "queued", !.video_id = del.obj.id,
                                  !.file_paths = <<del.obj.original_video>>,
                                  !.enqueued = @ + 1]
    /\ UNCHANGED <<request, instance, on_commit, video, pc, local, tx, fs,
                   playlist_content, runs, reruns, enqueued, edit>>
    /\ UNCHANGED auth_vars

\* the DELETE waits for the row lock and keeps it; post_delete is sent with
\* the loaded object and registers enqueue_video_cleanup (line 83).  at_rest
\* remembers whether the pipeline was at rest and the loaded object current
video_post_delete_handler ==
    /\ del.phase = "loaded"
    /\ lock = {}
    /\ lock' = {Deleter}
    /\ del' = [del EXCEPT !.phase = "in_tx", !.at_rest = AtRest /\ del.obj = video]
    /\ UNCHANGED <<request, instance, on_commit, video, pc, local, tx, fs,
                   playlist_content, runs, reruns, enqueued, edit, cleanup>>
    /\ UNCHANGED auth_vars

\* str() of the primary key: a deleted instance has the key None
str(id) == IF id = 0 THEN "None" ELSE ToString(id)

\* lines 63-77: the paths handed to the cleanup job
file_paths(inst) ==
    (IF inst.original_video # NullPath THEN <<inst.original_video>> ELSE <<>>)
    \o (IF inst.thumbnail # NullPath THEN <<inst.thumbnail>> ELSE <<>>)
    \o <<<<"videos", "hls", str(inst.id)>>>>
    \o <<<<"videos", "thumbnails", str(inst.id)>>>>

\* lines 62-81: the on_commit callback of the deletion
enqueue_video_cleanup(inst) ==
    IF file_paths(inst) # <<>>
    THEN [cleanup EXCEPT !.pc = "queued", !.video_id = inst.id,
                         !.file_paths = file_paths(inst),
                         !.enqueued = @ + 1]
    ELSE cleanup

\* the instance as the callback finds it: delete() sets the key of the
\* instance to None when it returns, which is before an outer transaction
\* commits and after the transaction of delete() itself has committed
instance_on_commit ==
    IF del.outer_atomic THEN [del.obj EXCEPT !.id = 0] ELSE del.obj

\* the deleting transaction commits: the row is gone, the callback runs
delete_commit ==
    /\ del.phase = "in_tx"
    /\ del' = [del EXCEPT !.phase = "committed"]
    /\ video' = NoVideo
    /\ lock' = lock \ {Deleter}
    /\ cleanup' = enqueue_video_cleanup(instance_on_commit)
    /\ UNCHANGED <<request, instance, on_commit, pc, local, tx, fs,
                   playlist_content, runs, reruns, enqueued, edit>>
    /\ UNCHANGED auth_vars

\* the deleting transaction rolls back: the row stays, the callback is dropped
delete_rollback ==
    /\ del.phase = "in_tx"
    /\ del' = [del EXCEPT !.phase = "rolled_back"]
    /\ lock' = lock \ {Deleter}
    /\ UNCHANGED <<request, instance, on_commit, video, pc, local, tx, fs,
                   playlist_content, runs, reruns, enqueued, edit, cleanup>>
    /\ UNCHANGED auth_vars

(* ---- cleanup_deleted_video_files ----------------------------------------- *)

\* p is q or an ancestor directory of q
IsPrefix(p, q) == Len(p) <= Len(q) /\ SubSeq(q, 1, Len(p)) = p

\* the directories the jobs make with os.makedirs; every other path is a file
Dirs ==
    {output_dir(VideoId), thumbnail_dir(VideoId)}
    \cup {resolution_dir(VideoId, l) : l \in Labels}

\* the check left out: every path is taken to exist
path_exists_assumed(p) == TRUE

\* line 181: os.path.exists
path_exists(p) == p \in fs

\* line 182: os.path.isdir
isdir(p) == p \in fs /\ p \in Dirs

\* line 183: shutil.rmtree
rmtree(p) == {q \in fs : ~IsPrefix(p, q)}

\* a free worker takes the cleanup job
cleanup_work ==
    /\ cleanup.pc = "queued"
    /\ Busy < NumWorkers
    /\ cleanup' = [cleanup EXCEPT !.pc = "remove", !.i = 1]
    /\ UNCHANGED <<request, instance, on_commit, video, pc, lock, local, tx, fs,
                   playlist_content, runs, reruns, enqueued, edit, del>>
    /\ UNCHANGED auth_vars

\* the job looking the row up before it removes a path
cleanup_remove_with_lookup ==
    /\ cleanup.pc = "remove"
    /\ IF video.id = 0
       THEN /\ cleanup' = [cleanup EXCEPT !.pc = "except",
                                          !.error = "DoesNotExist"]
            /\ fs' = fs
       ELSE /\ cleanup' = [cleanup EXCEPT !.pc = "done", !.runs = Append(@, "done")]
            /\ fs' = {}
    /\ UNCHANGED <<request, instance, on_commit, video, pc, lock, local, tx,
                   playlist_content, runs, reruns, enqueued, edit, del>>
    /\ UNCHANGED auth_vars

\* lines 180-189: one round of the loop, and the end of the job after the
\* last.  Removing a path that does not exist raises FileNotFoundError; the
\* removal of an existing path may fail in the operating system
cleanup_remove ==
    /\ cleanup.pc = "remove"
    /\ IF cleanup.i > Len(cleanup.file_paths)
       THEN /\ cleanup' = [cleanup EXCEPT !.pc = "done", !.runs = Append(@, "done")]
            /\ fs' = fs
       ELSE LET file_path == cleanup.file_paths[cleanup.i]
            IN IF ~path_exists(file_path)
               THEN /\ cleanup' = [cleanup EXCEPT !.i = @ + 1]
                    /\ fs' = fs
               ELSE IF file_path \notin fs
               THEN /\ cleanup' = [cleanup EXCEPT !.pc = "except",
                                                  !.error = "FileNotFoundError"]
                    /\ fs' = fs
               ELSE \E io \in {"ok", "OSError"} :
                    IF io = "ok"
                    THEN /\ cleanup' = [cleanup EXCEPT !.i = @ + 1]
                         /\ fs' = IF isdir(file_path) THEN rmtree(file_path)
                                                      ELSE fs \ {file_path}
                    ELSE /\ cleanup' = [cleanup EXCEPT !.pc = "except",
                                                       !.error = io]
                         /\ fs' = fs
    /\ UNCHANGED <<request, instance, on_commit, video, pc, lock, local, tx,
                   playlist_content, runs, reruns, enqueued, edit, del>>
    /\ UNCHANGED auth_vars

\* lines 191-193: raise again
cleanup_except ==
    /\ cleanup.pc = "except"
    /\ cleanup' = [cleanup EXCEPT !.pc = "failed", !.runs = Append(@, "failed")]
    /\ UNCHANGED <<request, instance, on_commit, video, pc, lock, local, tx, fs,
                   playlist_content, runs, reruns, enqueued, edit, del>>
    /\ UNCHANGED auth_vars

\* the ended cleanup job is delivered again
cleanup_rerun ==
    /\ cleanup.pc \in {"done", "failed"}
    /\ reruns < MaxReruns
    /\ reruns' = reruns + 1
    /\ cleanup' = [cleanup EXCEPT !.pc = "queued", !.error = ""]
    /\ UNCHANGED <<request, instance, on_commit, video, pc, lock, local, tx, fs,
                   playlist_content, runs, enqueued, edit, del>>
    /\ UNCHANGED auth_vars

cleanup_deleted_video_files ==
    \/ cleanup_work
    \/ cleanup_remove
    \/ cleanup_except
    \/ cleanup_rerun

NextDelete ==
    \/ Next
    \/ delete_load
    \/ video_post_delete_handler
    \/ delete_commit
    \/ delete_rollback
    \/ cleanup_deleted_video_files

SpecDelete == Init /\ [][NextDelete]_vars

(* ---- the composer on any row ------------------------------------------- *)

\* the rows a test or a shell session can store: any subset of the rendition
\* paths recorded, any status, flag and thumbnail
StoredVideos ==
    { [NewVideo(TRUE, FALSE) EXCEPT
          !.hls_path = [l \in Labels |-> IF l \in S THEN rendition_path(VideoId, l)
                                                    ELSE NullPath],
          !.processing_status = st,
          !.is_processed = flag,
          !.thumbnail = th] :
        S \in SUBSET Labels, st \in Statuses, flag \in BOOLEAN,
        th \in {NullPath, video_directory_path(VideoId, <<"1", "thumbnail.jpg">>)} }

\* a stored row, with or without its HLS directory on disk, and the composer
\* job in the queue
InitComposer ==
    /\ request = "committed"
    /\ video \in StoredVideos
    /\ instance = NoVideo
    /\ on_commit = FALSE
    /\ pc = [j \in Jobs |-> IF j = MasterJob THEN "queued" ELSE "none"]
    /\ lock = {}
    /\ local = [j \in Jobs |-> NoVideo]
    /\ tx = [j \in Jobs |-> NoVideo]
    /\ fs \in { {video.original_video},
                {video.original_video, output_dir(VideoId)} }
    /\ playlist_content = <<>>
    /\ runs = [j \in Jobs |-> <<>>]
    /\ reruns = 0
    /\ enqueued = [j \in Jobs |-> IF j = MasterJob THEN 1 ELSE 0]
    /\ edit = NoEdit
    /\ del = NoDelete
    /\ cleanup = NoCleanup
    /\ users = <<>>
    /\ outbox = <<>>
    /\ response = NoResponse

NextComposer ==
    \/ Work(MasterJob)
    \/ Rerun(MasterJob)
    \/ create_master_playlist

SpecComposer == InitComposer /\ [][NextComposer]_vars

(* ---- the encoders on any row --------------------------------------------- *)

\* a stored row in any status with its source file on disk, and the encoder
\* jobs in the queue as enqueue_video_processing leaves them
InitEncoder ==
    /\ request = "committed"
    /\ video \in StoredVideos
    /\ instance = NoVideo
    /\ on_commit = FALSE
    /\ pc = [j \in Jobs |-> IF j \in Labels THEN enqueue_video_processing(video)[j]
                                             ELSE "none"]
    /\ lock = {}
    /\ local = [j \in Jobs |-> NoVideo]
    /\ tx = [j \in Jobs |-> NoVideo]
    /\ fs = {video.original_video}
    /\ playlist_content = <<>>
    /\ runs = [j \in Jobs |-> <<>>]
    /\ reruns = 0
    /\ enqueued = [j \in Jobs |-> IF j \in Labels THEN 1 ELSE 0]
    /\ edit = NoEdit
    /\ del = NoDelete
    /\ cleanup = NoCleanup
    /\ users = <<>>
    /\ outbox = <<>>
    /\ response = NoResponse

NextEncoder ==
    \/ \E l \in Labels : Work(l)
    \/ \E l \in Labels : Rerun(l)
    \/ \E l \in Labels : convert_video_to_hls(l)

SpecEncoder == InitEncoder /\ [][NextEncoder]_vars

(* ---- a second entity next to the deleted one ----------------------------- *)

\* the key of another entity
OtherId == VideoId + 1

\* the names of uploaded files: root and extension
Filenames == {<<"original", ".mp4">>, <<"clip", ".mp4">>}

\* Storage.get_alternative_name: a random suffix between root and extension
get_alternative_name(file_root, file_ext) == file_root \o "_x7Kq2Ab" \o file_ext

\* Storage.get_available_name, called by FileField.pre_save for both file
\* fields: the name asked for if no file has it, else an alternative name
get_available_name(dir_name, filename) ==
    IF dir_name \o <<filename[1] \o filename[2]>> \in fs
    THEN dir_name \o <<get_alternative_name(filename[1], filename[2])>>
    ELSE dir_name \o <<filename[1] \o filename[2]>>

\* the files the jobs of an entity leave on disk when all of them succeed
job_outputs(id) ==
    {index_m3u8(id, l) : l \in Labels} \cup {segment_ts(id, l) : l \in Labels}
    \cup {master_playlist_path(id), thumbnail_path(id),
          video_directory_path(id, <<ToString(id), "thumbnail.jpg">>)}

\* the files on disk that belong to a stored row
files_of(v) ==
    ({v.original_video, v.thumbnail} \ {NullPath})
    \cup {output_dir(v.id)}
    \cup UNION {{resolution_dir(v.id, l), index_m3u8(v.id, l), segment_ts(v.id, l)} :
                  l \in {k \in Labels : v.hls_path[k] # NullPath}}
    \cup (IF v.is_processed THEN {master_playlist_path(v.id)} ELSE {})

\* another entity is created with an uploaded source file: the file is stored
\* while the instance has no key yet
upload_other(filename) ==
    /\ instance.id = 0
    /\ LET name == get_available_name(video_directory_path(0, <<>>), filename)
       IN /\ instance' = [NewVideo(TRUE, FALSE) EXCEPT !.id = OtherId,
                                                       !.original_video = name]
          /\ fs' = fs \cup {name}
    /\ UNCHANGED <<request, on_commit, video, pc, lock, local, tx,
                   playlist_content, runs, reruns, enqueued, edit, del, cleanup>>
    /\ UNCHANGED auth_vars

\* the pipeline of the other entity has run to the end
other_processed ==
    /\ instance.id = OtherId
    /\ ~instance.is_processed
    /\ instance' = [instance EXCEPT
                       !.is_processed = TRUE,
                       !.processing_status = "completed",
                       !.thumbnail = video_directory_path(OtherId,
                                        <<ToString(OtherId), "thumbnail.jpg">>),
                       !.hls_path = [l \in Labels |-> rendition_path(OtherId, l)]]
    /\ fs' = fs \cup job_outputs(OtherId)
    /\ UNCHANGED <<request, on_commit, video, pc, lock, local, tx,
                   playlist_content, runs, reruns, enqueued, edit, del, cleanup>>
    /\ UNCHANGED auth_vars

\* a stored entity with its files on disk and no job in the queue
InitFrame ==
    /\ request = "committed"
    /\ video \in StoredVideos
    /\ instance = NoVideo
    /\ on_commit = FALSE
    /\ pc = [j \in Jobs |-> "none"]
    /\ lock = {}
    /\ local = [j \in Jobs |-> NoVideo]
    /\ tx = [j \in Jobs |-> NoVideo]
    /\ fs = files_of(video)
    /\ playlist_content = <<>>
    /\ runs = [j \in Jobs |-> <<>>]
    /\ reruns = 0
    /\ enqueued = [j \in Jobs |-> 0]
    /\ edit = NoEdit
    /\ del = NoDelete
    /\ cleanup = NoCleanup
    /\ users = <<>>
    /\ outbox = <<>>
    /\ response = NoResponse

NextFrame ==
    \/ \E filename \in Filenames : upload_other(filename)
    \/ other_processed
    \/ delete_load
    \/ video_post_delete_handler
    \/ delete_commit
    \/ delete_rollback
    \/ cleanup_deleted_video_files

SpecFrame == InitFrame /\ [][NextFrame]_vars

(* ---- the serving views (requests of an authenticated user) ---------------- *)

HTTP_200_OK == 200
HTTP_404_NOT_FOUND == 404

\* the ids, resolutions and segment names a request can carry: the stored
\* entity and an id without a row, the ladder and a resolution outside it, the
\* segment the transcoder writes and one it does not
MovieIds == {VideoId, VideoId + 1}
Resolutions == Labels \cup {"360p"}
Segments == {"segment_000.ts", "segment_001.ts"}

\* a filter without the is_processed condition
objects_all(movie_id) ==
    IF video.id # 0 /\ video.id = movie_id THEN {video} ELSE {}

\* Video.objects.filter(id=movie_id, is_processed=True)
objects_processed(movie_id) ==
    IF video.id # 0 /\ video.id = movie_id /\ video.is_processed THEN {video} ELSE {}

\* Video.get_hls_path: getattr(self, 'hls_<resolution>_path', None)
get_hls_path(v, resolution) ==
    IF resolution \in Labels THEN v.hls_path[resolution] ELSE NullPath

\* Video.hls_full_path, relative to MEDIA_ROOT; NullPath stands for None
hls_full_path(v, resolution) == get_hls_path(v, resolution)

\* Video.hls_segment_dir: os.path.dirname of the playlist path
hls_segment_dir(v, resolution) ==
    LET full_path == hls_full_path(v, resolution)
    IN IF full_path = NullPath THEN NullPath
       ELSE SubSeq(full_path, 1, Len(full_path) - 1)

\* VideoListView.get: the ids of the serialized videos
VideoListView_get ==
    [status |-> HTTP_200_OK,
     data |-> {v.id : v \in UNION {objects_processed(i) : i \in MovieIds}}]

\* a response: an error message is the sequence of its words
Error(status, error) == [status |-> status, error |-> error, file |-> NullPath]
FileResponse(path) == [status |-> HTTP_200_OK, error |-> <<>>, file |-> path]

\* HLSPlaylistView.get
HLSPlaylistView_get(movie_id, resolution) ==
    IF objects_processed(movie_id) = {}
    THEN Error(HTTP_404_NOT_FOUND, <<"Video", "not", "found">>)
    ELSE LET full_path == hls_full_path(video, resolution)
         IN IF full_path = NullPath \/ full_path \notin fs
            THEN Error(HTTP_404_NOT_FOUND,
                       <<"HLS", "playlist", resolution, "not", "found">>)
            ELSE FileResponse(full_path)

\* the segment view opening the file without looking whether it exists
HLSSegmentView_get_unchecked(movie_id, resolution, segment) ==
    IF objects_processed(movie_id) = {}
    THEN Error(HTTP_404_NOT_FOUND, <<"Video", "not", "found">>)
    ELSE LET segment_dir == hls_segment_dir(video, resolution)
         IN IF segment_dir = NullPath
            THEN Error(HTTP_404_NOT_FOUND,
                       <<"Resolution", resolution, "not", "available">>)
            ELSE FileResponse(segment_dir \o <<segment>>)

\* HLSSegmentView.get
HLSSegmentView_get(movie_id, resolution, segment) ==
    IF objects_processed(movie_id) = {}
    THEN Error(HTTP_404_NOT_FOUND, <<"Video", "not", "found">>)
    ELSE LET segment_dir == hls_segment_dir(video, resolution)
             segment_path == segment_dir \o <<segment>>
         IN IF segment_dir = NullPath
            THEN Error(HTTP_404_NOT_FOUND,
                       <<"Resolution", resolution, "not", "available">>)
            ELSE IF segment_path \notin fs
            THEN Error(HTTP_404_NOT_FOUND, <<"Segment", segment, "not", "found">>)
            ELSE FileResponse(segment_path)

(* ---- accounts: registration, activation, login, password reset ---------- *)

\* the User table may hold MaxUsers rows and the outbox MaxMails emails
MaxUsers == 2
MaxMails == 2

HTTP_201_CREATED == 201
HTTP_302_FOUND == 302
HTTP_400_BAD_REQUEST == 400
HTTP_401_UNAUTHORIZED == 401
HTTP_500_INTERNAL_SERVER_ERROR == 500

\* well-formed addresses, two of them equal but for the case of a letter, and
\* a string that is not an address
Emails == {"a@x.com", "A@x.com", "b@x.com"}
InvalidEmail == "not-an-email"
\* the password of every account at first, and the one a reset sets
Passwords == {"pw1", "pw2"}
FirstPassword == "pw1"
NewPassword == "pw2"

\* str.lower
lower(email) == IF email = "A@x.com" THEN "a@x.com" ELSE email

\* email.split('@')[0] of a lower-case address
base_username(email) == IF email = "a@x.com" THEN "a" ELSE "b"

\* the rows that exist before any request: none, the active and the inactive
\* user of the test fixtures, and an account made with createsuperuser, which
\* keeps the case of the local part of its address
FixtureUsers ==
    { <<>>,
      <<[username |-> <<"testuser">>, email |-> "a@x.com", password |-> "pw1",
         is_active |-> TRUE]>>,
      <<[username |-> <<"inactiveuser">>, email |-> "a@x.com", password |-> "pw1",
         is_active |-> FALSE]>>,
      <<[username |-> <<"admin">>, email |-> "A@x.com", password |-> "pw1",
         is_active |-> TRUE]>> }

Pks == 1..Len(users)

\* urlsafe_base64_encode(force_bytes(pk)) and its inverse; 0 stands for the
\* ValueError of a string that does not decode to a key
urlsafe_base64_encode(pk) == "b64-" \o ToString(pk)
urlsafe_base64_decode(uidb64) ==
    IF \E pk \in 1..(MaxUsers + 1) : urlsafe_base64_encode(pk) = uidb64
    THEN CHOOSE pk \in 1..(MaxUsers + 1) : urlsafe_base64_encode(pk) = uidb64
    ELSE 0

\* the uids a request can carry: of every key there can be, of a key without
\* a row, and a string that does not decode
Uids == {urlsafe_base64_encode(pk) : pk \in 1..(MaxUsers + 1)} \cup {"%%%"}

\* default_token_generator: the token is a hash over the key, the password
\* and the address of the user (and a timestamp, which is left out)
make_token(pk) ==
    [pk |-> pk, password |-> users[pk].password, email |-> users[pk].email]
check_token_any(pk, token) == TRUE
check_token(pk, token) == token = make_token(pk)

\* the tokens a client can hold: those that were mailed or returned, and None
Tokens ==
    {outbox[i].token : i \in 1..Len(outbox)} \cup {response.data_token, NoToken}

\* EmailService.send_email
send_email(pk, subject, token) ==
    Append(outbox, [to |-> users[pk].email, subject |-> subject, token |-> token])

\* the answer of a view to a request
Answer(view, uidb64, token, email, password, status, detail, user, data_token, cookies) ==
    [view |-> view, uidb64 |-> uidb64, token |-> token, email |-> email,
     password |-> password, status |-> status, detail |-> detail, user |-> user,
     data_token |-> data_token, cookies |-> cookies]

\* User.objects.filter(email=email): exact match / email__iexact
email_exact(email) == {pk \in Pks : users[pk].email = email}
email_iexact(email) == {pk \in Pks : lower(users[pk].email) = lower(email)}

\* the lowest key of a set of rows: QuerySet.first()
first(pks) == CHOOSE pk \in pks : \A other \in pks : pk <= other

\* lines 81-86 of the serializer: the first free username
RECURSIVE username(_, _)
username(base, counter) ==
    LET name == IF counter = 0 THEN <<base>> ELSE <<base, ToString(counter)>>
    IN IF \E pk \in Pks : users[pk].username = name
       THEN username(base, counter + 1)
       ELSE name

\* create_user(..., is_active=True)
new_user_active(email, password) ==
    [username |-> username(base_username(email), 0), email |-> email,
     password |-> password, is_active |-> TRUE]

\* lines 88-93 of the serializer: create_user(..., is_active=False)
new_user(email, password) ==
    [username |-> username(base_username(email), 0), email |-> email,
     password |-> password, is_active |-> FALSE]

\* RegistrationView.post with RegistrationSerializer and send_activation_email
RegistrationView_post(email, password, confirmed_password) ==
    IF email = InvalidEmail \/ password # confirmed_password
    THEN /\ response' = Answer("register", Null, NoToken, email, password,
                               HTTP_400_BAD_REQUEST, <<>>, 0, NoToken, {})
         /\ UNCHANGED <<users, outbox>>
    ELSE LET existing == email_exact(lower(email))
             pk == IF existing # {} THEN first(existing) ELSE Len(users) + 1
         IN /\ existing = {} => Len(users) < MaxUsers
            /\ users' = IF existing # {} THEN users
                        ELSE Append(users, new_user(lower(email), password))
            /\ ~users'[pk].is_active => Len(outbox) < MaxMails
            /\ LET token == [pk |-> pk, password |-> users'[pk].password,
                             email |-> users'[pk].email]
               IN IF ~users'[pk].is_active
                  THEN /\ outbox' = Append(outbox,
                              [to |-> users'[pk].email,
                               subject |-> "Activate your Videoflix account",
                               token |-> token])
                       /\ response' = Answer("register", Null, NoToken, email,
                                             password, HTTP_201_CREATED, <<>>,
                                             pk, token, {})
                  ELSE /\ outbox' = outbox
                       /\ response' = Answer("register", Null, NoToken, email,
                                             password, HTTP_201_CREATED, <<>>,
                                             pk, NoToken, {})

\* AuthService.activate_user: the key of the activated user, 0 if none
activate_user(uidb64, token) ==
    LET uid == urlsafe_base64_decode(uidb64)
    IN IF uid \in Pks /\ check_token(uid, token) THEN uid ELSE 0

\* ActivateAccountView.get
ActivateAccountView_get(uidb64, token) ==
    LET pk == activate_user(uidb64, token)
    IN /\ users' = IF pk # 0 THEN [users EXCEPT ![pk].is_active = TRUE] ELSE users
       /\ outbox' = outbox
       /\ response' = Answer("activate", uidb64, token, Null, Null, HTTP_302_FOUND,
                             IF pk # 0 THEN <<"activation", "success">>
                                       ELSE <<"activation", "error">>,
                             pk, NoToken, {})

\* ModelBackend.authenticate: the password matches and the user is active
authenticate_inactive_too(pk, password) == users[pk].password = password
authenticate(pk, password) ==
    users[pk].password = password /\ users[pk].is_active

\* LoginView.post with LoginSerializer.validate
LoginView_post(email, password) ==
    LET found == email_exact(email)
        Unauthorized == Answer("login", Null, NoToken, email, password,
                          HTTP_401_UNAUTHORIZED,
                          <<"Incorrect", "username", "or", "password.">>,
                          0, NoToken, {})
    IN /\ UNCHANGED <<users, outbox>>
       /\ response' =
            IF found = {} THEN Unauthorized
            ELSE IF Cardinality(found) > 1
            THEN Answer("login", Null, NoToken, email, password,
                        HTTP_500_INTERNAL_SERVER_ERROR,
                        <<"MultipleObjectsReturned">>, 0, NoToken, {})
            ELSE IF authenticate(first(found), password)
            THEN Answer("login", Null, NoToken, email, password, HTTP_200_OK,
                        <<"Login", "successful">>, first(found), NoToken,
                        {"refresh_token", "access_token"})
            ELSE Unauthorized

\* PasswordResetRequestView.post with send_password_reset_email
PasswordResetRequestView_post(email) ==
    IF email = InvalidEmail
    THEN /\ response' = Answer("password_reset", Null, NoToken, email, Null,
                               HTTP_400_BAD_REQUEST, <<>>, 0, NoToken, {})
         /\ UNCHANGED <<users, outbox>>
    ELSE LET found == email_iexact(lower(email))
         IN /\ users' = users
            /\ IF Cardinality(found) > 1
               THEN /\ outbox' = outbox
                    /\ response' = Answer("password_reset", Null, NoToken, email,
                                          Null, HTTP_500_INTERNAL_SERVER_ERROR,
                                          <<"MultipleObjectsReturned">>, 0,
                                          NoToken, {})
               ELSE /\ found # {} => Len(outbox) < MaxMails
                    /\ outbox' =
                         IF found = {} THEN outbox
                         ELSE send_email(first(found),
                                  IF users[first(found)].is_active
                                  THEN "Reset your Videoflix password"
                                  ELSE "Activate and reset your Videoflix password",
                                  make_token(first(found)))
                    /\ response' = Answer("password_reset", Null, NoToken, email,
                                          Null, HTTP_200_OK,
                                          <<"An", "email", "has", "been", "sent",
                                            "to", "reset", "your", "password.">>,
                                          0, NoToken, {})

\* AuthService.reset_password: the key of the user whose password is set
reset_password(uidb64, token) ==
    LET uid == urlsafe_base64_decode(uidb64)
    IN IF uid \in Pks /\ check_token(uid, token) THEN uid ELSE 0

\* PasswordConfirmView.post
PasswordConfirmView_post(uidb64, token, new_password) ==
    IF new_password = Null
    THEN /\ response' = Answer("password_confirm", uidb64, token, Null,
                               new_password, HTTP_400_BAD_REQUEST,
                               <<"New", "password", "is", "required.">>, 0,
                               NoToken, {})
         /\ UNCHANGED <<users, outbox>>
    ELSE LET pk == reset_password(uidb64, token)
         IN /\ users' = IF pk = 0 THEN users
                        ELSE [users EXCEPT ![pk].password = new_password,
                                           ![pk].is_active = TRUE]
            /\ outbox' = outbox
            /\ response' =
                 IF pk = 0
                 THEN Answer("password_confirm", uidb64, token, Null, new_password,
                             HTTP_400_BAD_REQUEST,
                             <<"Invalid", "password", "reset", "link.">>, 0,
                             NoToken, {})
                 ELSE Answer("password_confirm", uidb64, token, Null, new_password,
                             HTTP_200_OK,
                             <<"Your", "Password", "has", "been", "successfully",
                               "reset.">>, pk, NoToken, {})

register ==
    /\ \E email \in Emails \cup {InvalidEmail}, confirmed_password \in Passwords :
          RegistrationView_post(email, FirstPassword, confirmed_password)
    /\ UNCHANGED pipeline_vars

activate ==
    /\ \E uidb64 \in Uids, token \in Tokens : ActivateAccountView_get(uidb64, token)
    /\ UNCHANGED pipeline_vars

login ==
    /\ \E email \in Emails, password \in Passwords : LoginView_post(email, password)
    /\ UNCHANGED pipeline_vars

password_reset ==
    /\ \E email \in Emails \cup {InvalidEmail} : PasswordResetRequestView_post(email)
    /\ UNCHANGED pipeline_vars

password_confirm ==
    /\ \E uidb64 \in Uids, token \in Tokens, new_password \in {NewPassword, Null} :
          PasswordConfirmView_post(uidb64, token, new_password)
    /\ UNCHANGED pipeline_vars

InitAuth ==
    /\ request = "none"
    /\ instance = NoVideo
    /\ on_commit = FALSE
    /\ video = NoVideo
    /\ pc = [j \in Jobs |-> "none"]
    /\ lock = {}
    /\ local = [j \in Jobs |-> NoVideo]
    /\ tx = [j \in Jobs |-> NoVideo]
    /\ fs = {}
    /\ playlist_content = <<>>
    /\ runs = [j \in Jobs |-> <<>>]
    /\ reruns = 0
    /\ enqueued = [j \in Jobs |-> 0]
    /\ edit = NoEdit
    /\ del = NoDelete
    /\ cleanup = NoCleanup
    /\ users \in FixtureUsers
    /\ outbox = <<>>
    /\ response = NoResponse

NextAuth ==
    \/ register
    \/ activate
    \/ login
    \/ password_reset
    \/ password_confirm

SpecAuth == InitAuth /\ [][NextAuth]_vars

(* ---- vocabulary of the properties ---------------------------------------- *)

Range(seq) == {seq[i] : i \in 1..Len(seq)}

\* the job has ended at least once / at least once without an exception /
\* at least once with an exception raised to the job runner
Finished(j) == runs[j] # <<>>
Succeeded(j) == "done" \in Range(runs[j])
Raised(j) == "failed" \in Range(runs[j])

\* a worker has taken the job at least once
Started(j) == j \in Running \/ Finished(j)

\* the pipeline is submitted and no job is queued or running: without a new
\* delivery nothing more happens
Quiescent ==
    /\ request = "committed"
    /\ \A j \in Jobs : pc[j] \in {"none", "deferred", "done", "failed"}

(* ---- C1 ------------------------------------------------------------------ *)

\* C1: when an encoder job or the composer job ends with its exception
\* raised to the job runner, the committed processing_status is 'failed'
\* from that moment on.
C1_FailureIsCommitted ==
    [][\A j \in Labels \cup {MasterJob} :
          (pc[j] = "except" /\ pc'[j] = "failed")
             => video'.processing_status = "failed"]_vars

(* ---- C2 ------------------------------------------------------------------ *)

\* C2: once the three encoder jobs have succeeded, in whatever order they
\* and the thumbnail job took the row, the committed row holds the three
\* rendition paths, and the thumbnail reference if the thumbnail job
\* succeeded.
C2_NoLostUpdate ==
    (\A l \in Labels : Succeeded(l))
       => /\ \A l \in Labels : video.hls_path[l] = rendition_path(video.id, l)
          /\ Succeeded(ThumbJob) => video.thumbnail # NullPath

\* the thumbnail job and the three encoder jobs have all succeeded
C2_Witness ==
    /\ \A l \in Labels : Succeeded(l)
    /\ Succeeded(ThumbJob)
    /\ video.thumbnail = <<"videos", "1", "1", "thumbnail.jpg">>
    /\ \A l \in Labels : video.hls_path[l] # NullPath

(* ---- C3 ------------------------------------------------------------------ *)

\* C3: once the three encoder jobs and the composer job have succeeded, the
\* committed row is 'completed' and is_processed is true.
C3_CompletedAfterPipeline ==
    ((\A l \in Labels : Succeeded(l)) /\ Succeeded(MasterJob))
       => (video.processing_status = "completed" /\ video.is_processed)

\* the composer succeeded after the three encoders
C3_Witness ==
    /\ \A l \in Labels : Succeeded(l)
    /\ Succeeded(MasterJob)
    /\ video.is_processed

(* ---- C4 ------------------------------------------------------------------ *)

\* C4: in every committed state of the row is_processed is true exactly
\* when processing_status is 'completed'.
C4_ProcessedIffCompleted ==
    video.id # 0 => (video.is_processed <=> video.processing_status = "completed")

\* a composer job that raised after the row was completed
C4_Witness ==
    /\ video.is_processed
    /\ video.processing_status = "completed"
    /\ Raised(MasterJob)
    /\ runs[MasterJob][1] = "done"

(* ---- C5 ------------------------------------------------------------------ *)

Forward ==
    { <<"pending", "processing">>,
      <<"processing", "completed">>,
      <<"processing", "failed">> }

\* C5: every change of the committed processing_status is one step of
\* pending -> processing -> {completed, failed}.
C5_ForwardOnly ==
    [][(video.id # 0 /\ video'.processing_status # video.processing_status)
          => <<video.processing_status, video'.processing_status>> \in Forward]_vars

\* the row went through 'processing' to 'completed' and jobs ran after that
C5_Witness ==
    /\ video.processing_status = "completed"
    /\ \E j \in Jobs : Len(runs[j]) = 2

(* ---- C6 ------------------------------------------------------------------ *)

\* C6: a job whose transcoder subprocess is running does not hold the row
\* lock.
C6_NoLockDuringTranscode ==
    \A j \in Jobs : pc[j] = "ffmpeg" => j \notin lock

(* ---- C7 ------------------------------------------------------------------ *)

\* C7: when a worker has taken the composer job, each of the three encoder
\* jobs has ended.
C7_ComposerAfterEncoders ==
    Started(MasterJob) => \A l \in Labels : Finished(l)

\* the composer has just been taken by a worker
C7_Witness ==
    /\ pc[MasterJob] = "begin"
    /\ runs[MasterJob] = <<>>
    /\ \A l \in Labels : Finished(l)

(* ---- C8 ------------------------------------------------------------------ *)

\* C8: when an encoder job has failed and the pipeline has come to rest,
\* every encoder job and the composer job have been executed.
C8_FailureIsLocal ==
    (Quiescent /\ \E l \in Labels : Raised(l))
       => \A j \in Labels \cup {MasterJob} : Finished(j)

(* ---- C9 ------------------------------------------------------------------ *)

\* C9: a composer job that a worker has taken is never kept waiting by the
\* thumbnail job: unless an encoder job holds the row, the composer can take
\* it and go on, whatever the thumbnail job is doing.
C9_ThumbnailNeverBlocks ==
    (pc[MasterJob] = "begin" /\ lock \cap Labels = {}) => ENABLED master_select

(* ---- C10 ----------------------------------------------------------------- *)

\* C10: when the encoders have failed, no rendition path is recorded and the
\* pipeline has come to rest, the manifest is written with no stream entry
\* and the row is 'completed' with is_processed true.
C10_EmptyManifestCompletes ==
    (Quiescent /\ (\E l \in Labels : Raised(l))
               /\ (\A l \in Labels : video.hls_path[l] = NullPath))
       => /\ master_playlist_path(video.id) \in fs
          /\ playlist_content = <<"#EXTM3U", "#EXT-X-VERSION:3", "">>
          /\ video.processing_status = "completed"
          /\ video.is_processed

(* ---- C11 ----------------------------------------------------------------- *)

Recorded == {l \in Labels : video.hls_path[l] # NullPath}

\* the manifest the format prescribes for the set S of labels
ManifestOf(S) ==
    <<"#EXTM3U", "#EXT-X-VERSION:3", "">>
    \o (IF "480p" \in S
        THEN <<"#EXT-X-STREAM-INF:BANDWIDTH=800000,RESOLUTION=854x480",
               "480p/index.m3u8", "">>
        ELSE <<>>)
    \o (IF "720p" \in S
        THEN <<"#EXT-X-STREAM-INF:BANDWIDTH=2800000,RESOLUTION=1280x720",
               "720p/index.m3u8", "">>
        ELSE <<>>)
    \o (IF "1080p" \in S
        THEN <<"#EXT-X-STREAM-INF:BANDWIDTH=5000000,RESOLUTION=1920x1080",
               "1080p/index.m3u8", "">>
        ELSE <<>>)

\* C11: for every set of recorded rendition paths, the manifest the composer
\* has written holds one stream entry per recorded label and no other, in
\* ladder order, each with the label's bandwidth and resolution followed by
\* '<label>/index.m3u8'.
C11_ManifestMatchesRecorded ==
    (pc[MasterJob] = "done" /\ runs[MasterJob][Len(runs[MasterJob])] = "done")
       => playlist_content = ManifestOf(Recorded)

\* the composer has written the manifest of a row with 480p and 1080p only
C11_Witness ==
    /\ pc[MasterJob] = "done"
    /\ Recorded = {"480p", "1080p"}
    /\ Len(playlist_content) = 9
    /\ playlist_content[8] = "1080p/index.m3u8"

(* ---- C12 ----------------------------------------------------------------- *)

\* C12: the thumbnail job that finds a thumbnail on the row ends at once and
\* successfully: the transcoder is not started, no path is created, the row,
\* the manifest and the lock are as before.
C12_ThumbnailRerunIsNoOp ==
    [][(pc[ThumbJob] = "begin" /\ pc'[ThumbJob] # "begin"
                               /\ video.thumbnail # NullPath)
          => /\ pc'[ThumbJob] = "done"
             /\ fs' = fs
             /\ video' = video
             /\ playlist_content' = playlist_content
             /\ lock' = lock]_vars

\* the thumbnail job ran twice and the second run found the thumbnail
C12_Witness ==
    /\ runs[ThumbJob] = <<"done", "done">>
    /\ video.thumbnail # NullPath

(* ---- C13 ----------------------------------------------------------------- *)

\* C13: when the thumbnail job ends with its exception raised, the committed
\* row is left as it is, and its processing_status is the one the job read
\* when it started.
C13_ThumbnailFailureKeepsStatus ==
    [][(pc[ThumbJob] = "except" /\ pc'[ThumbJob] = "failed")
          => /\ video' = video
             /\ video.processing_status = local[ThumbJob].processing_status]_vars

\* the thumbnail job has failed on a row that is 'processing'
C13_Witness ==
    /\ pc[ThumbJob] = "failed"
    /\ video.processing_status = "processing"
    /\ video.thumbnail = NullPath

(* ---- C14 ----------------------------------------------------------------- *)

Submitted == request = "committed" /\ instance.original_video # NullPath

C15_EnqueueAfterCommit ==
    /\ request # "committed" =>
          \A j \in Jobs : pc[j] = "none" /\ enqueued[j] = 0
    /\ \A j \in Running : video.id # 0

\* the creation of an entity with a source file was rolled back
C15_Witness ==
    /\ request = "rolled_back"
    /\ instance.original_video # NullPath
    /\ video = NoVideo

(* ---- deletion and cleanup ------------------------------------------------- *)

\* the files on disk (the directories made by the jobs are not artifacts)
ArtifactFiles == fs \ Dirs

\* C16: once an entity whose pipeline had come to rest is deleted and the
\* cleanup job for it has completed, no artifact file is left on disk: no
\* source, stored thumbnail, rendition playlist, segment or master manifest
C16_NothingRemains ==
    (cleanup.pc = "done" /\ del.at_rest) => ArtifactFiles = {}

\* C17: the cleanup job tolerates missing paths and is idempotent: it never
\* raises for a path that is absent, and a run that follows a successful run
\* changes nothing on disk and does not raise
C17_CleanupIsIdempotent ==
    /\ [](cleanup.error # "FileNotFoundError")
    /\ [][(/\ cleanup' # cleanup
           /\ cleanup.pc \in {"queued", "remove"}
           /\ cleanup.runs # <<>>
           /\ cleanup.runs[Len(cleanup.runs)] = "done")
          => (fs' = fs /\ cleanup'.pc # "except")]_vars

\* the job ran twice to the end; on the second run every path was absent
C17_Witness ==
    /\ cleanup.runs = <<"done", "done">>
    /\ cleanup.pc = "done"
    /\ \A n \in 1..Len(cleanup.file_paths) : cleanup.file_paths[n] \notin fs

\* C18: the cleanup job neither reads nor writes the row: its steps leave the
\* row, its lock and every job's transaction as they are, and with the row
\* gone it removes its paths; only the operating system can make it fail
C18_CleanupIgnoresRow ==
    [][(cleanup' # cleanup /\ cleanup.pc \in {"queued", "remove", "except"})
       => /\ video' = video
          /\ lock' = lock
          /\ tx' = tx
          /\ local' = local
          /\ (video = NoVideo /\ cleanup'.pc = "except")
                => cleanup'.error = "OSError"]_vars

\* the job has removed the files of an entity whose row no longer exists
C18_Witness ==
    /\ cleanup.runs = <<"done">>
    /\ video = NoVideo
    /\ del.phase = "committed"
    /\ del.obj.original_video # NullPath
    /\ del.obj.original_video \notin fs

(* ---- layout and locking --------------------------------------------------- *)

\* the artifact root of the entity
media_directory(id) == <<"videos", ToString(id)>>

\* C19: every artifact stored for the entity with id i (source file, thumbnail,
\* rendition directories with playlists and segments, master manifest) lies
\* under videos/{i}/
C19_UnderEntityDirectory ==
    \A p \in fs : IsPrefix(media_directory(VideoId), p)

\* C20: a pipeline job writes the row only while it holds the row's exclusive
\* lock, and at most one job holds the lock at any time
C20_WritesUnderLock ==
    /\ [](Cardinality(lock) <= 1)
    /\ [](\A j \in Jobs : tx[j].id # 0 => lock = {j})
    /\ [][(video.id # 0 /\ video' # video) => \E j \in Jobs : lock = {j}]_vars

\* an encoder has changed the row inside its transaction and holds the lock
\* while another job of the entity waits at its select
C20_Witness ==
    \E j \in Labels : \E k \in Jobs \ {j} :
        /\ lock = {j}
        /\ pc[j] = "ffmpeg"
        /\ tx[j].processing_status = "processing"
        /\ pc[k] = "begin"

(* ---- rendition paths and re-runs ------------------------------------------ *)

\* C21: the rendition path of a label is set at most once: once the committed
\* path of a label is not empty, no later job or save changes or clears it
C21_PathSetOnce ==
    [][\A l \in Labels :
         (video.id # 0 /\ video'.id # 0 /\ video.hls_path[l] # NullPath)
            => video'.hls_path[l] = video.hls_path[l]]_vars

\* C22: a job that is run again to completion changes nothing: a second
\* successful run of an encoder leaves the row (path and status) as it is, and
\* a second successful run of the composer leaves the row 'completed' and
\* processed and writes the manifest that is already there
C22_RerunChangesNothing ==
    [][/\ \A l \in Labels :
            (Succeeded(l) /\ runs'[l] = Append(runs[l], "done"))
               => video' = video
       /\ (Succeeded(MasterJob)
             /\ runs'[MasterJob] = Append(runs[MasterJob], "done"))
            => /\ video' = video
               /\ video'.processing_status = "completed"
               /\ video'.is_processed
               /\ playlist_content' = master_playlist(video)
               /\ (runs[MasterJob][Len(runs[MasterJob])] = "done"
                     => playlist_content' = playlist_content)]_vars

\* an encoder and the composer have each succeeded twice
C22_Witness ==
    \/ \E l \in Labels : /\ runs[l] = <<"done", "done">>
                         /\ video.hls_path[l] = rendition_path(video.id, l)
    \/ /\ runs[MasterJob] = <<"done", "done">>
       /\ video.processing_status = "completed"
       /\ playlist_content = master_playlist(video)

(* ---- the serving views ----------------------------------------------------- *)

\* C23: while is_processed is false the video is not exposed: it is not in the
\* video list, and every playlist and segment request for it is answered 404
C23_UnprocessedIsHidden ==
    (video.id # 0 /\ ~video.is_processed)
       => /\ video.id \notin VideoListView_get.data
          /\ \A r \in Resolutions :
                /\ HLSPlaylistView_get(video.id, r).status = HTTP_404_NOT_FOUND
                /\ \A s \in Segments :
                      HLSSegmentView_get(video.id, r, s).status = HTTP_404_NOT_FOUND

\* an unprocessed video whose playlist and segment are recorded and on disk
C23_Witness ==
    /\ video.id # 0
    /\ ~video.is_processed
    /\ video.processing_status = "processing"
    /\ \E l \in Labels : /\ video.hls_path[l] \in fs
                         /\ segment_ts(video.id, l) \in fs
    /\ HLSPlaylistView_get(video.id, "480p").error = <<"Video", "not", "found">>

\* the words of `part` occur in `whole`, in a row
Contains(whole, part) ==
    \E i \in 0..(Len(whole) - Len(part)) :
        SubSeq(whole, i + 1, i + Len(part)) = part

\* C24: a playlist request tells its failures apart: for a processed video
\* with no path recorded for the resolution the answer is 404 with
\* 'Resolution <resolution> not available', with a path recorded and the file
\* missing it is 404 with 'Playlist not found', and for a video that does not
\* exist it is 404 with 'Video not found'
C24_PlaylistErrorsDistinguished ==
    \A i \in MovieIds, r \in Resolutions :
        LET answer == HLSPlaylistView_get(i, r)
        IN /\ objects_all(i) = {}
                => /\ answer.status = HTTP_404_NOT_FOUND
                   /\ Contains(answer.error, <<"Video", "not", "found">>)
           /\ (objects_processed(i) # {} /\ hls_full_path(video, r) = NullPath)
                => /\ answer.status = HTTP_404_NOT_FOUND
                   /\ Contains(answer.error, <<"Resolution", r, "not", "available">>)
           /\ (/\ objects_processed(i) # {}
               /\ hls_full_path(video, r) # NullPath
               /\ hls_full_path(video, r) \notin fs)
                => /\ answer.status = HTTP_404_NOT_FOUND
                   /\ Contains(answer.error, <<"Playlist", "not", "found">>)

named_user(r) ==
    IF urlsafe_base64_decode(r.uidb64) \in Pks
    THEN urlsafe_base64_decode(r.uidb64) ELSE 0

\* C26: a user created by registration is inactive and becomes active only
\* when an activation or a password reset is carried out for that user with a
\* token issued for that user; an activation with such a token makes the
\* user active
C26_InactiveUntilActivated ==
    [][/\ Len(users') > Len(users)
            => /\ response'.view = "register"
               /\ ~users'[Len(users')].is_active
       /\ \A pk \in Pks :
            (~users[pk].is_active /\ users'[pk].is_active)
               => /\ response'.view \in {"activate", "password_confirm"}
                  /\ named_user(response') = pk
                  /\ response'.token = make_token(pk)
       /\ (/\ response'.view = "activate"
           /\ named_user(response') # 0
           /\ response'.token = make_token(named_user(response')))
            => users'[named_user(response')].is_active]_vars

\* a user who registered has been activated with the token that was mailed
C26_Witness ==
    /\ response.view = "activate"
    /\ response.detail = <<"activation", "success">>
    /\ response.user \in Pks
    /\ users[response.user].username = <<"b">>
    /\ users[response.user].is_active
    /\ \E i \in 1..Len(outbox) : /\ outbox[i].token = response.token
                                 /\ outbox[i].subject = "Activate your Videoflix account"

Refused == <<"Incorrect", "username", "or", "password.">>

C29_DuplicateRegistrationIsSilent ==
    [][(/\ response'.view = "register"
        /\ response'.status # HTTP_400_BAD_REQUEST
        /\ email_exact(lower(response'.email)) # {})
         => /\ response'.status = HTTP_201_CREATED
            /\ users' = users
            /\ outbox' = outbox]_vars

\* C30: a password-reset request with a well-formed email is answered 200
\* with the same body whether or not a user has that email; one reset email is
\* sent if a user matches the email without regard to case, none otherwise
C30_ResetRequestRevealsNothing ==
    [][(response'.view = "password_reset" /\ response'.email \in Emails)
         => /\ response'.status = HTTP_200_OK
            /\ response'.detail = <<"An", "email", "has", "been", "sent", "to",
                                    "reset", "your", "password.">>
            /\ users' = users
            /\ IF email_iexact(response'.email) # {}
               THEN /\ Len(outbox') = Len(outbox) + 1
                    /\ lower(outbox'[Len(outbox')].to) = lower(response'.email)
               ELSE outbox' = outbox]_vars

(* ---- the status an encoder leaves ----------------------------------------- *)

\* C31: a successful encoder job changes processing_status only from
\* 'pending' to 'processing': when the row it locked was 'processing',
\* 'completed' or 'failed', the job records its rendition path and commits the
\* status it found
C31_StatusOnlyFromPending ==
    [][\A l \in Labels :
         (pc[l] = "save" /\ pc'[l] = "done")
            => /\ video'.hls_path[l] = rendition_path(video.id, l)
               /\ video'.processing_status =
                     IF video.processing_status = "pending" THEN "processing"
                     ELSE video.processing_status]_vars

\* an encoder has succeeded on a row that it found 'failed'
C31_Witness ==
    \E l \in Labels :
        /\ runs[l] = <<"done">>
        /\ video.processing_status = "failed"
        /\ video.hls_path[l] = rendition_path(video.id, l)

\* C32: a rendition path is on the committed row only if an encoder job of
\* that label ended successfully with its playlist written by the transcoder;
\* an encoder job that ends with an exception leaves every rendition path of
\* the committed row as it was
C32_PathOnlyAfterTranscode ==
    /\ [](\A l \in Labels :
            video.hls_path[l] # NullPath
               => Succeeded(l) /\ index_m3u8(video.id, l) \in fs)
    /\ [][\A l \in Labels :
            (pc[l] = "except" /\ pc'[l] = "failed")
               => video'.hls_path = video.hls_path]_vars

\* the second encoder failed after it wrote a segment: its path is not set
\* and the path of the first is still there
C32_Witness ==
    /\ runs["720p"] = <<"failed">>
    /\ segment_ts(VideoId, "720p") \in fs
    /\ video.hls_path["720p"] = NullPath
    /\ video.hls_path["480p"] = rendition_path(VideoId, "480p")

\* C33: whenever the row is 'completed', the manifest on disk lists exactly
\* the labels whose rendition path is recorded on the row; once the composer
\* has finalized the row no rendition path is added or removed
C33_ManifestMatchesRow ==
    /\ [](video.processing_status = "completed"
            => /\ master_playlist_path(video.id) \in fs
               /\ playlist_content = ManifestOf(Recorded))
    /\ [][(Succeeded(MasterJob) /\ video.id # 0 /\ video'.id # 0)
            => video'.hls_path = video.hls_path]_vars

(* ---- the deletion and the jobs -------------------------------------------- *)

\* C34: the cleanup job is handed to the queue only when the deleting
\* transaction has committed, and once; when the deleting transaction rolls
\* back no cleanup job is enqueued and nothing on disk is removed
C34_CleanupAfterCommit ==
    /\ [](cleanup.enqueued = IF del.phase = "committed" THEN 1 ELSE 0)
    /\ [](del.phase # "committed" => cleanup.pc = "none" /\ cleanup.runs = <<>>)
    /\ [][del.phase' # "committed" => fs \subseteq fs']_vars
    /\ [][(del.phase = "in_tx" /\ del'.phase = "rolled_back")
            => (video' = video /\ video.id # 0 /\ fs' = fs)]_vars

\* the deletion of an entity with artifacts on disk was rolled back
C34_Witness ==
    /\ del.phase = "rolled_back"
    /\ video.id # 0
    /\ \E l \in Labels : index_m3u8(VideoId, l) \in fs
    /\ cleanup.enqueued = 0

\* C35: after the deletion has committed, whatever jobs of the entity were
\* queued or running at the time, once the cleanup job has completed and all
\* those jobs have ended no artifact file of the entity is on disk
C35_FilesDisappear ==
    (del.phase = "committed" /\ cleanup.pc = "done" /\ AtRest)
        => ArtifactFiles = {}

(* ---- progress -------------------------------------------------------------- *)

\* C36: when every enqueued job is run and every transcoder call ends, an
\* entity created with a source file reaches 'completed' or 'failed'; it does
\* not stay 'pending' or 'processing' for ever
C36_ReachesFinalStatus ==
    Submitted ~> (video.processing_status \in {"completed", "failed"})

\* a step of a job of the pipeline: a worker takes it, or its body goes on
JobStep ==
    \/ \E j \in Jobs : Work(j)
    \/ \E l \in Labels : convert_video_to_hls(l)
    \/ create_thumbnail
    \/ create_master_playlist

\* C37: the pipeline never deadlocks: in every reachable state in which some
\* job handed to the queue has not ended, at least one job can take a step
C37_NoDeadlock ==
    (\E j \in Jobs : pc[j] \notin {"none", "done", "failed"}) => ENABLED JobStep

(* ---- metadata edits and the jobs -------------------------------------------- *)

\* C38: saving an edit of the metadata never changes the committed
\* processing_status, is_processed, thumbnail or rendition paths, whatever
\* the jobs have committed between the edit's read and its save
C38_EditKeepsJobFields ==
    [][(edit.phase = "loaded" /\ edit'.phase = "saved")
         => /\ video'.processing_status = video.processing_status
            /\ video'.is_processed = video.is_processed
            /\ video'.thumbnail = video.thumbnail
            /\ video'.hls_path = video.hls_path]_vars

(* ---- the cleanup job and other entities ------------------------------------- *)

\* the files stored for the other entity
OtherArtifacts ==
    ({instance.original_video, instance.thumbnail} \ {NullPath})
    \cup (IF instance.is_processed THEN job_outputs(OtherId) ELSE {})

\* C39: deleting an entity and running its cleanup job leaves every artifact
\* of another entity on disk: no path handed to the job is, or is a directory
\* above, a path under which an artifact of the other entity is stored
C39_OtherEntityUntouched ==
    /\ [][instance.id = OtherId
            => \A p \in OtherArtifacts : p \in fs => p \in fs']_vars
    /\ [](\A n \in 1..Len(cleanup.file_paths) : \A p \in OtherArtifacts :
             ~IsPrefix(cleanup.file_paths[n], p))

(* ---- jobs after the deletion ------------------------------------------------ *)

\* C40: a deleted row is never re-created: once the deletion has committed
\* the row stays absent, every job that ends ends with an error, and no file
\* or directory is created
C40_DeletedStaysDeleted ==
    [][del.phase = "committed"
         => /\ video' = NoVideo
            /\ \A j \in Jobs : runs'[j] # runs[j] => pc'[j] = "failed"
            /\ fs' \subseteq fs]_vars

\* the first encoder was taken by a worker after the deletion and has failed
\* before it made its directory; the cleanup job has not run yet
C40_Witness ==
    /\ del.phase = "committed"
    /\ video = NoVideo
    /\ cleanup.pc = "queued"
    /\ runs["480p"] = <<"failed">>
    /\ resolution_dir(VideoId, "480p") \notin fs

====
